---- MODULE Spec2Model ----
(***************************************************************************)
(* tagrs: the filesystem-backed tagged-collection index                    *)
(* (src/src/collection.rs) and the request handlers that reach it through  *)
(* an Arc<RwLock<Collection>> (src/src/lib.rs).                            *)
(*                                                                         *)
(* The disk is part of the state: the movie root, the tag root, the tag    *)
(* directories and their entries.  The Collection is the in-memory index.  *)
(***************************************************************************)
EXTENDS Integers, Sequences, FiniteSets, TLC

(***************************************************************************)
(* The universe of names on disk.                                          *)
(***************************************************************************)
MovieNames == {"Alien (1979)", "Brazil (1985)"}
TagNames == {"Horror", "SciFi"}
\* base names of the two roots, used when one root is nested in the other
TagRootName == "tags"
MovieRootName == "movies"
\* names an entry of the movie root, or of a tag directory, can have
EntryNames == MovieNames \cup {TagRootName}
\* the process's working directory, against which relative paths resolve
Cwd == <<"/", "srv">>

\* number of changes another process makes to the disk in one behaviour
MaxExternal == 2

\* number of requests the server handles concurrently in one behaviour
MaxRequests == 3
Reqs == 1..MaxRequests

Layouts == {"disjoint", "tag_in_movie", "movie_in_tag"}

VARIABLES
    layout,         \* how the two roots are nested on disk (fixed)
    movie_dir_arg,  \* Cli.movie_dir as given on the command line (fixed)
    movieFs,        \* movie root: name -> "none" | "file" | "dir" | "dir_poster"
    tagFs,          \* tag root: name -> "none" | "file" | "dir"
    linkFs,         \* tag directory: name -> entry [kind, target]
    unreadable,     \* directories whose read permission is cleared
    constructed,    \* Collection::new has returned Ok
    tags,           \* Collection.tags
    movies,         \* Collection.movies
    movie_dir,      \* Collection.movie_dir
    tag_dir,        \* Collection.tag_dir
    last,           \* the operation that produced this state, and its result
    external,       \* number of external changes to the disk so far
    req,            \* request -> the route it came in on, and its path arguments
    pc,             \* request -> where its handler stands
    outcome,        \* request -> how its handler ended
    rw_readers,     \* AppState.collection: requests holding a read guard
    rw_writer,      \* AppState.collection: the request holding the write guard, or 0
    rw_queue,       \* AppState.collection: requests waiting for a guard, in order
    pending,        \* toggle_tag's locals between its filesystem call and its set update
    serial,         \* the Collection and the links had every writer run alone
    call            \* a call of an identifier function: its argument and its result

fsVars == <<layout, movie_dir_arg, movieFs, tagFs, linkFs, unreadable>>
memVars == <<constructed, tags, movies, movie_dir, tag_dir>>
reqVars == <<req, pc, outcome, rw_readers, rw_writer, rw_queue, pending>>
vars == <<fsVars, memVars, last, external, reqVars, serial, call>>

(***************************************************************************)
(* Paths are sequences of components; "/" heads an absolute path.          *)
(***************************************************************************)
None == <<>>

Join(p, name) == Append(p, name)

\* Path::file_name: the final component, None for an empty path, the root
\* or a path ending in ".."
FileName(p) ==
    IF Len(p) = 0 \/ p[Len(p)] \in {"/", ".."} THEN None ELSE <<p[Len(p)]>>

IsPrefix(p, q) == Len(p) <= Len(q) /\ SubSeq(q, 1, Len(p)) = p

CanonMovieRoot(l) ==
    IF l = "movie_in_tag" THEN Cwd \o <<TagRootName, MovieRootName>>
    ELSE Cwd \o <<MovieRootName>>

CanonTagRoot(l) ==
    IF l = "tag_in_movie" THEN Cwd \o <<MovieRootName, TagRootName>>
    ELSE Cwd \o <<TagRootName>>

\* the movie root written relative to the working directory
RelMovieRoot(l) == SubSeq(CanonMovieRoot(l), Len(Cwd) + 1, Len(CanonMovieRoot(l)))

\* tokio::fs::canonicalize on a path that exists: an absolute path without
\* symlinks is its own canonical form, a relative one resolves against Cwd
canonicalize(p) == IF Len(p) > 0 /\ Head(p) = "/" THEN p ELSE Cwd \o p

(***************************************************************************)
(* SHA-1 of a base name's bytes (the real digests of these names).         *)
(***************************************************************************)
Sha1(n) ==
    CASE n = "Alien (1979)" ->
           <<32,86,73,117,35,88,86,91,50,24,240,188,137,92,9,138,179,137,251,88>>
      [] n = "Brazil (1985)" ->
           <<179,157,9,244,188,205,161,24,20,252,154,170,219,180,156,242,38,200,187,108>>
      [] n = "tags" ->
           <<155,110,245,161,164,153,146,62,167,197,32,2,236,3,88,60,210,114,135,234>>
      [] n = "movies" ->
           <<152,49,22,25,182,249,6,158,201,48,244,108,52,0,44,170,228,175,167,78>>
      [] n = "" ->
           <<218,57,163,238,94,107,75,13,50,85,191,239,149,96,24,144,175,216,7,9>>

\* a slip: a path without a final component is hashed as the empty name
path_hashLossy(p) ==
    IF FileName(p) = None THEN [ok |-> TRUE, hash |-> Sha1("")]
    ELSE [ok |-> TRUE, hash |-> Sha1(FileName(p)[1])]

\* path_hash: the digest of the final component, an error when there is none
path_hash(p) ==
    IF FileName(p) = None THEN [ok |-> FALSE, hash |-> <<>>]
    ELSE [ok |-> TRUE, hash |-> Sha1(FileName(p)[1])]

AllHashes == {Sha1(n) : n \in EntryNames}

(***************************************************************************)
(* PathnameHash as text: a string is the sequence of its characters.       *)
(***************************************************************************)
\* the length of a PathnameHash, [u8; 20]
HashLen == 20

HexDigits == <<"0", "1", "2", "3", "4", "5", "6", "7",
               "8", "9", "a", "b", "c", "d", "e", "f">>
UpperHexDigits == <<"0", "1", "2", "3", "4", "5", "6", "7",
                    "8", "9", "A", "B", "C", "D", "E", "F">>

\* a slip: a byte below 16 is written as one digit, as {:x} writes it
hex_encodeUnpadded(bytes) ==
    LET RECURSIVE enc(_)
        enc(i) == IF i > Len(bytes) THEN <<>>
                  ELSE (IF bytes[i] < 16 THEN <<>>
                        ELSE <<HexDigits[(bytes[i] \div 16) + 1]>>)
                       \o <<HexDigits[(bytes[i] % 16) + 1]>> \o enc(i + 1)
    IN  enc(1)

\* hex::encode: two lowercase digits per byte, the high nibble first
hex_encode(bytes) ==
    [i \in 1..(2 * Len(bytes)) |->
        IF i % 2 = 1 THEN HexDigits[(bytes[(i + 1) \div 2] \div 16) + 1]
        ELSE HexDigits[(bytes[i \div 2] % 16) + 1]]

\* Movie::id
id(hash) == hex_encode(hash)

\* the value of a hex digit of either case, -1 for any other character
HexVal(c) ==
    IF \E i \in 1..16 : HexDigits[i] = c
    THEN (CHOOSE i \in 1..16 : HexDigits[i] = c) - 1
    ELSE IF \E i \in 1..16 : UpperHexDigits[i] = c
    THEN (CHOOSE i \in 1..16 : UpperHexDigits[i] = c) - 1
    ELSE -1

\* hex::decode: an odd length is refused first, then any character that is
\* no hex digit
hex_decode(s) ==
    IF Len(s) % 2 = 1 THEN [ok |-> FALSE, err |-> "OddLength", bytes |-> <<>>]
    ELSE IF \E i \in 1..Len(s) : HexVal(s[i]) < 0
    THEN [ok |-> FALSE, err |-> "InvalidHexCharacter", bytes |-> <<>>]
    ELSE [ok |-> TRUE, err |-> "",
          bytes |-> [i \in 1..(Len(s) \div 2) |->
                       16 * HexVal(s[2 * i - 1]) + HexVal(s[2 * i])]]

\* TryFrom<&[u8]> for PathnameHash; anyhow::Error turns into Error::Other
try_from(value) ==
    IF Len(value) # HashLen THEN [ok |-> FALSE, err |-> "Other", hash |-> <<>>]
    ELSE [ok |-> TRUE, err |-> "", hash |-> value]

\* PathnameHash::from_str; hex::FromHexError turns into Error::Other
from_str(s) ==
    LET d == hex_decode(s)
    IN  IF ~d.ok THEN [ok |-> FALSE, err |-> "Other", hash |-> <<>>]
        ELSE try_from(d.bytes)

(***************************************************************************)
(* The disk.                                                               *)
(***************************************************************************)
NoEntry == [kind |-> "none", target |-> None]
FileEntry == [kind |-> "file", target |-> None]
DirEntry == [kind |-> "dir", target |-> None]
SymlinkTo(p) == [kind |-> "symlink", target |-> p]

EmptyDir == [n \in EntryNames |-> NoEntry]

\* the entries read_dir yields for the movie root: DirEntry::file_type does
\* not follow symlinks, and a nested tag root is one of the directories
MovieRootEntries(l, mfs) ==
    {[name |-> n, kind |-> IF mfs[n] = "file" THEN "file" ELSE "dir"] :
        n \in {m \in MovieNames : mfs[m] # "none"}}
    \cup (IF l = "tag_in_movie" THEN {[name |-> TagRootName, kind |-> "dir"]} ELSE {})

TagRootEntries(l, tfs) ==
    {[name |-> t, kind |-> tfs[t]] : t \in {x \in TagNames : tfs[x] # "none"}}
    \cup (IF l = "movie_in_tag" THEN {[name |-> MovieRootName, kind |-> "dir"]} ELSE {})

TagDirEntries(lfs, t) ==
    {[name |-> n, kind |-> lfs[t][n].kind] :
        n \in {x \in EntryNames : lfs[t][x].kind # "none"}}

\* tokio::fs::read_dir followed by next_entry/file_type over the whole
\* directory: the listing, or an error when the path is no directory or
\* cannot be read
ReadDir(p, l, mfs, tfs, lfs, unr) ==
    LET real == canonicalize(p)
        troot == CanonTagRoot(l)
    IN  IF real = CanonMovieRoot(l)
        THEN [ok |-> "movie_root" \notin unr, entries |-> MovieRootEntries(l, mfs)]
        ELSE IF real = troot
        THEN [ok |-> "tag_root" \notin unr, entries |-> TagRootEntries(l, tfs)]
        ELSE IF /\ Len(real) = Len(troot) + 1
                /\ IsPrefix(troot, real)
                /\ real[Len(real)] \in TagNames
                /\ tfs[real[Len(real)]] = "dir"
        THEN [ok |-> real[Len(real)] \notin unr,
              entries |-> TagDirEntries(lfs, real[Len(real)])]
        ELSE [ok |-> FALSE, entries |-> {}]

\* Path::exists on <movie directory>/poster.jpg
PosterExists(p, l, mfs) ==
    /\ Len(p) >= 2
    /\ p[Len(p)] = "poster.jpg"
    /\ canonicalize(SubSeq(p, 1, Len(p) - 2)) = CanonMovieRoot(l)
    /\ p[Len(p) - 1] \in MovieNames
    /\ mfs[p[Len(p) - 1]] = "dir_poster"

\* the slot of the disk a path inside a tag directory names
LinkSlot(p, l) ==
    LET troot == CanonTagRoot(l)
    IN  IF /\ Len(p) = Len(troot) + 2
           /\ IsPrefix(troot, p)
           /\ p[Len(p) - 1] \in TagNames
           /\ p[Len(p)] \in EntryNames
        THEN [ok |-> TRUE, tag |-> p[Len(p) - 1], name |-> p[Len(p)]]
        ELSE [ok |-> FALSE, tag |-> "", name |-> ""]

\* tokio::fs::remove_file: unlinks a file or a symlink; fails when the entry
\* or its directory is missing, or the entry is a directory
remove_file(p, l, tfs, lfs) ==
    LET s == LinkSlot(p, l)
    IN  IF s.ok /\ tfs[s.tag] = "dir" /\ lfs[s.tag][s.name].kind \in {"file", "symlink"}
        THEN [ok |-> TRUE, links |-> [lfs EXCEPT ![s.tag][s.name] = NoEntry]]
        ELSE [ok |-> FALSE, links |-> lfs]

\* a slip: an entry already at link is replaced, as ln -sf does
symlinkOverwriting(original, p, l, tfs, lfs) ==
    LET s == LinkSlot(p, l)
    IN  IF s.ok /\ tfs[s.tag] = "dir"
        THEN [ok |-> TRUE, links |-> [lfs EXCEPT ![s.tag][s.name] = SymlinkTo(original)]]
        ELSE [ok |-> FALSE, links |-> lfs]

\* tokio::fs::symlink(original, link): creates link -> original; fails when
\* an entry already exists at link or the directory is missing
symlink(original, p, l, tfs, lfs) ==
    LET s == LinkSlot(p, l)
    IN  IF s.ok /\ tfs[s.tag] = "dir" /\ lfs[s.tag][s.name].kind = "none"
        THEN [ok |-> TRUE, links |-> [lfs EXCEPT ![s.tag][s.name] = SymlinkTo(original)]]
        ELSE [ok |-> FALSE, links |-> lfs]

(***************************************************************************)
(* The loader.                                                             *)
(***************************************************************************)
\* the Movie record load_movies builds for one directory entry
MovieOf(dir, name, l, mfs) ==
    LET path == Join(dir, name)
        possible_poster_path == Join(path, "poster.jpg")
    IN  [name |-> name,
         path |-> path,
         hash |-> path_hash(path).hash,
         poster_path |-> IF PosterExists(possible_poster_path, l, mfs)
                         THEN possible_poster_path ELSE None]

\* a slip: is_dir is not asked, every entry of the movie root is a movie
load_moviesAnyEntry(dir, l, mfs, tfs, lfs, unr) ==
    LET rd == ReadDir(dir, l, mfs, tfs, lfs, unr)
        names == {e.name : e \in rd.entries}
        hashes == {path_hash(Join(dir, n)).hash : n \in names}
    IN  IF ~rd.ok THEN [ok |-> FALSE, movies |-> <<>>]
        ELSE [ok |-> TRUE,
              movies |-> [h \in hashes |->
                            MovieOf(dir, CHOOSE n \in names : Sha1(n) = h, l, mfs)]]

\* Collection::load_movies
load_movies(dir, l, mfs, tfs, lfs, unr) ==
    LET rd == ReadDir(dir, l, mfs, tfs, lfs, unr)
        dirs == {e.name : e \in {x \in rd.entries : x.kind = "dir"}}
        hashes == {path_hash(Join(dir, n)).hash : n \in dirs}
    IN  IF ~rd.ok THEN [ok |-> FALSE, movies |-> <<>>]
        ELSE [ok |-> TRUE,
              movies |-> [h \in hashes |->
                            MovieOf(dir, CHOOSE n \in dirs : Sha1(n) = h, l, mfs)]]

\* a slip: the ignore set is not consulted
TagNamesOfIgnoringNothing(tag_index_dir, ignore, entries) ==
    {e.name : e \in {x \in entries : x.kind = "dir"}}

\* Collection::load_tags, first pass: the tag names
TagNamesOf(tag_index_dir, ignore, entries) ==
    {e.name : e \in {x \in entries :
                        x.kind = "dir" /\ Join(tag_index_dir, x.name) \notin ignore}}

\* a slip: one pass, a tag is listed when its first symlink is met
load_tagsSinglePass(tag_index_dir, ignore, l, mfs, tfs, lfs, unr) ==
    LET rd == ReadDir(tag_index_dir, l, mfs, tfs, lfs, unr)
        names == TagNamesOf(tag_index_dir, ignore, rd.entries)
        sub(t) == ReadDir(Join(tag_index_dir, t), l, mfs, tfs, lfs, unr)
        members(t) == {path_hash(Join(Join(tag_index_dir, t), e.name)).hash :
                          e \in {x \in sub(t).entries : x.kind = "symlink"}}
    IN  IF ~rd.ok \/ \E t \in names : ~sub(t).ok
        THEN [ok |-> FALSE, tags |-> <<>>]
        ELSE [ok |-> TRUE,
              tags |-> [t \in {x \in names : members(x) # {}} |-> members(t)]]

\* a slip: is_symlink is not asked, every entry of a tag directory counts
load_tagsAnyEntry(tag_index_dir, ignore, l, mfs, tfs, lfs, unr) ==
    LET rd == ReadDir(tag_index_dir, l, mfs, tfs, lfs, unr)
        names == TagNamesOf(tag_index_dir, ignore, rd.entries)
        sub(t) == ReadDir(Join(tag_index_dir, t), l, mfs, tfs, lfs, unr)
    IN  IF ~rd.ok \/ \E t \in names : ~sub(t).ok
        THEN [ok |-> FALSE, tags |-> <<>>]
        ELSE [ok |-> TRUE,
              tags |-> [t \in names |->
                          {path_hash(Join(Join(tag_index_dir, t), e.name)).hash :
                              e \in sub(t).entries}]]

\* Collection::load_tags
load_tags(tag_index_dir, ignore, l, mfs, tfs, lfs, unr) ==
    LET rd == ReadDir(tag_index_dir, l, mfs, tfs, lfs, unr)
        names == TagNamesOf(tag_index_dir, ignore, rd.entries)
        sub(t) == ReadDir(Join(tag_index_dir, t), l, mfs, tfs, lfs, unr)
    IN  IF ~rd.ok \/ \E t \in names : ~sub(t).ok
        THEN [ok |-> FALSE, tags |-> <<>>]
        ELSE [ok |-> TRUE,
              tags |-> [t \in names |->
                          {path_hash(Join(Join(tag_index_dir, t), e.name)).hash :
                              e \in {x \in sub(t).entries : x.kind = "symlink"}}]]

(***************************************************************************)
(* Collection::new                                                         *)
(***************************************************************************)
NewResult(movie_dir_, tag_dir_, l, mfs, tfs, lfs, unr) ==
    LET abs_movie_dir == canonicalize(movie_dir_)
        abs_tag_dir == canonicalize(tag_dir_)
        ignore_paths == {abs_movie_dir}
        ms == load_movies(movie_dir_, l, mfs, tfs, lfs, unr)
        ts == load_tags(abs_tag_dir, ignore_paths, l, mfs, tfs, lfs, unr)
    IN  IF ms.ok /\ ts.ok
        THEN [res |-> "Ok", movies |-> ms.movies, tags |-> ts.tags,
              movie_dir |-> abs_movie_dir, tag_dir |-> abs_tag_dir]
        ELSE [res |-> "Other", movies |-> <<>>, tags |-> <<>>,
              movie_dir |-> None, tag_dir |-> None]

(***************************************************************************)
(* Collection::toggle_tag                                                  *)
(***************************************************************************)
\* a slip: the tag is made on demand, as HashMap::entry().or_default() does
get_mut_or_default(tags_, tag) ==
    [found |-> TRUE,
     tags |-> IF tag \in DOMAIN tags_ THEN tags_
              ELSE [t \in DOMAIN tags_ \cup {tag} |->
                      IF t \in DOMAIN tags_ THEN tags_[t] ELSE {}]]

\* self.tags.get_mut(tag)
get_mut(tags_, tag) == [found |-> tag \in DOMAIN tags_, tags |-> tags_]

\* a slip: the identifier leaves the set whether or not remove_file succeeded
RemoveBranchIgnoringError(tags_, lfs, tag, hash, r) ==
    [res |-> IF r.ok THEN "Ok" ELSE "IO",
     tags |-> [tags_ EXCEPT ![tag] = @ \ {hash}],
     links |-> r.links, fsop |-> "remove_file"]

\* a slip: the identifier leaves the set and the symlink stays
RemoveBranchKeepingLink(tags_, lfs, tag, hash, r) ==
    [res |-> "Ok", tags |-> [tags_ EXCEPT ![tag] = @ \ {hash}],
     links |-> lfs, fsop |-> "none"]

\* a slip: the identifier leaves the set of every tag
RemoveBranchFromAllTags(tags_, lfs, tag, hash, r) ==
    IF ~r.ok
    THEN [res |-> "IO", tags |-> tags_, links |-> lfs, fsop |-> "remove_file"]
    ELSE [res |-> "Ok", tags |-> [t \in DOMAIN tags_ |-> tags_[t] \ {hash}],
          links |-> r.links, fsop |-> "remove_file"]

\* toggle_tag, the branch of a tagged movie, after remove_file has returned r
RemoveBranch(tags_, lfs, tag, hash, r) ==
    IF ~r.ok
    THEN [res |-> "IO", tags |-> tags_, links |-> lfs, fsop |-> "remove_file"]
    ELSE [res |-> "Ok", tags |-> [tags_ EXCEPT ![tag] = @ \ {hash}],
          links |-> r.links, fsop |-> "remove_file"]

\* a slip: the identifier enters the set and no symlink is made
AddBranchSkippingLink(tags_, lfs, tag, hash, r) ==
    [res |-> "Ok", tags |-> [tags_ EXCEPT ![tag] = @ \cup {hash}],
     links |-> lfs, fsop |-> "symlink"]

\* a slip: the identifier enters the set whether or not symlink succeeded
AddBranchIgnoringError(tags_, lfs, tag, hash, r) ==
    [res |-> IF r.ok THEN "Ok" ELSE "IO",
     tags |-> [tags_ EXCEPT ![tag] = @ \cup {hash}],
     links |-> r.links, fsop |-> "symlink"]

\* toggle_tag, the branch of an untagged movie, after symlink has returned r
AddBranch(tags_, lfs, tag, hash, r) ==
    IF ~r.ok
    THEN [res |-> "IO", tags |-> tags_, links |-> lfs, fsop |-> "symlink"]
    ELSE [res |-> "Ok", tags |-> [tags_ EXCEPT ![tag] = @ \cup {hash}],
          links |-> r.links, fsop |-> "symlink"]

\* a slip: the link points at the path the Movie record carries
ToggleTagResultLinkingMoviePath(tags_, tag_dir_, movie_dir_, tag, movie, l, tfs, lfs) ==
    LET tag_movies == get_mut(tags_, tag)
    IN  IF ~tag_movies.found
        THEN [res |-> "NotFound", tags |-> tags_, links |-> lfs, fsop |-> "none"]
        ELSE
          LET tag_path == Join(Join(tag_dir_, tag), FileName(movie.path)[1])
          IN  IF movie.hash \in tag_movies.tags[tag]
              THEN RemoveBranch(tag_movies.tags, lfs, tag, movie.hash,
                                remove_file(tag_path, l, tfs, lfs))
              ELSE AddBranch(tag_movies.tags, lfs, tag, movie.hash,
                             symlink(movie.path, tag_path, l, tfs, lfs))

ToggleTagResult(tags_, tag_dir_, movie_dir_, tag, movie, l, tfs, lfs) ==
    LET tag_movies == get_mut(tags_, tag)
    IN  IF ~tag_movies.found
        THEN [res |-> "NotFound", tags |-> tags_, links |-> lfs, fsop |-> "none"]
        ELSE
          LET tag_path == Join(Join(tag_dir_, tag), FileName(movie.path)[1])
              movie_path == Join(movie_dir_, FileName(movie.path)[1])
          IN  IF movie.hash \in tag_movies.tags[tag]
              THEN RemoveBranch(tag_movies.tags, lfs, tag, movie.hash,
                                remove_file(tag_path, l, tfs, lfs))
              ELSE AddBranch(tag_movies.tags, lfs, tag, movie.hash,
                             symlink(movie_path, tag_path, l, tfs, lfs))

(***************************************************************************)
(* Collection::reload                                                      *)
(***************************************************************************)
\* a slip: the scanned tags are merged into the table instead of replacing it
ReloadResultMerging(tags_, movies_, movie_dir_, tag_dir_, l, mfs, tfs, lfs, unr) ==
    LET ms == load_movies(movie_dir_, l, mfs, tfs, lfs, unr)
        ts == load_tags(tag_dir_, {movie_dir_}, l, mfs, tfs, lfs, unr)
    IN  IF ~ms.ok THEN [res |-> "Other", movies |-> movies_, tags |-> tags_]
        ELSE IF ~ts.ok THEN [res |-> "Other", movies |-> ms.movies, tags |-> tags_]
        ELSE [res |-> "Ok", movies |-> ms.movies,
              tags |-> [t \in DOMAIN tags_ \cup DOMAIN ts.tags |->
                          (IF t \in DOMAIN tags_ THEN tags_[t] ELSE {})
                          \cup (IF t \in DOMAIN ts.tags THEN ts.tags[t] ELSE {})]]

ReloadResult(tags_, movies_, movie_dir_, tag_dir_, l, mfs, tfs, lfs, unr) ==
    LET ms == load_movies(movie_dir_, l, mfs, tfs, lfs, unr)
        ignore_paths == {movie_dir_}
        ts == load_tags(tag_dir_, ignore_paths, l, mfs, tfs, lfs, unr)
    IN  IF ~ms.ok THEN [res |-> "Other", movies |-> movies_, tags |-> tags_]
        ELSE IF ~ts.ok THEN [res |-> "Other", movies |-> ms.movies, tags |-> tags_]
        ELSE [res |-> "Ok", movies |-> ms.movies, tags |-> ts.tags]

(***************************************************************************)
(* Initial disks.                                                          *)
(***************************************************************************)
InitMovieFs ==
    {[n \in MovieNames |-> IF n = "Alien (1979)" THEN "dir_poster" ELSE "dir"],
     [n \in MovieNames |-> IF n = "Alien (1979)" THEN "dir_poster" ELSE "file"],
     [n \in MovieNames |-> IF n = "Alien (1979)" THEN "dir" ELSE "none"]}

InitTagFs ==
    {[t \in TagNames |-> "dir"],
     [t \in TagNames |-> IF t = "Horror" THEN "dir" ELSE "file"],
     [t \in TagNames |-> IF t = "Horror" THEN "dir" ELSE "none"]}

\* the entries of the tag directories, where the tag directory exists
InitLinkFs(l, tfs) ==
    LET target(n) == SymlinkTo(Join(CanonMovieRoot(l), n))
        only(t, n, e) == [x \in TagNames |->
                            IF x = t /\ tfs[t] = "dir"
                            THEN [EmptyDir EXCEPT ![n] = e] ELSE EmptyDir]
    IN  {[t \in TagNames |-> EmptyDir],
         only("SciFi", "Alien (1979)", target("Alien (1979)")),
         only("Horror", "Brazil (1985)", target("Brazil (1985)")),
         only("Horror", "Alien (1979)", FileEntry),
         only("SciFi", "Brazil (1985)", DirEntry)}

NoOp == [op |-> "none", res |-> "Ok", fsop |-> "none"]
NoRequest == [kind |-> "none", tag |-> "", hash |-> <<>>]
NoPending == [res |-> "none", tags |-> <<>>]
NoCall == [fn |-> "none", arg |-> <<>>, origin |-> <<>>, done |-> FALSE, ret |-> <<>>]

\* the disk and the process before main has built the Collection
InitState ==
    /\ layout \in Layouts
    /\ movie_dir_arg \in {CanonMovieRoot(layout), RelMovieRoot(layout)}
    /\ movieFs \in InitMovieFs
    /\ tagFs \in InitTagFs
    /\ linkFs \in InitLinkFs(layout, tagFs)
    /\ unreadable = {}
    /\ constructed = FALSE
    /\ tags = <<>>
    /\ movies = <<>>
    /\ movie_dir = None
    /\ tag_dir = None
    /\ last = NoOp
    /\ external = 0
    /\ req = [r \in Reqs |-> NoRequest]
    /\ pc = [r \in Reqs |-> "idle"]
    /\ outcome = [r \in Reqs |-> "none"]
    /\ rw_readers = {}
    /\ rw_writer = 0
    /\ rw_queue = <<>>
    /\ pending = NoPending
    /\ serial = [tags |-> <<>>, movies |-> <<>>, links |-> linkFs]

Init == InitState /\ call = NoCall

(***************************************************************************)
(* Operations.                                                             *)
(***************************************************************************)
\* main: Collection::new(&args.movie_dir, &args.tag_dir)
Construct ==
    /\ ~constructed
    /\ last.op = "none"
    /\ LET r == NewResult(movie_dir_arg, CanonTagRoot(layout), layout,
                          movieFs, tagFs, linkFs, unreadable)
       IN  /\ constructed' = (r.res = "Ok")
           /\ tags' = r.tags
           /\ movies' = r.movies
           /\ movie_dir' = r.movie_dir
           /\ tag_dir' = r.tag_dir
           /\ last' = [op |-> "construct", res |-> r.res, fsop |-> "none"]
           /\ serial' = [tags |-> r.tags, movies |-> r.movies, links |-> linkFs]
    /\ UNCHANGED <<call, fsVars, external, reqVars>>

\* a slip: the Movie comes from a lookup made before the guard was taken,
\* in a table that may have been replaced since
ToggleRequestResultStaleLookup(tags_, movies_, tag_dir_, movie_dir_, hash, tag, l, tfs, lfs) ==
    IF hash \notin {Sha1(n) : n \in MovieNames}
    THEN [res |-> "NotFound", tags |-> tags_, links |-> lfs, fsop |-> "none"]
    ELSE LET name == CHOOSE n \in MovieNames : Sha1(n) = hash
             stale == [name |-> name, path |-> Join(movie_dir_, name),
                       hash |-> hash, poster_path |-> None]
         IN  ToggleTagResult(tags_, tag_dir_, movie_dir_, tag, stale, l, tfs, lfs)

\* routes::toggle_tag once it holds the write lock: the lookup of the movie
\* and Collection::toggle_tag
ToggleRequestResult(tags_, movies_, tag_dir_, movie_dir_, hash, tag, l, tfs, lfs) ==
    IF hash \notin DOMAIN movies_
    THEN [res |-> "NotFound", tags |-> tags_, links |-> lfs, fsop |-> "none"]
    ELSE ToggleTagResult(tags_, tag_dir_, movie_dir_, tag, movies_[hash], l, tfs, lfs)

ToggleTag(tag, hash) ==
    /\ constructed
    /\ LET r == ToggleRequestResult(tags, movies, tag_dir, movie_dir, hash, tag,
                                    layout, tagFs, linkFs)
       IN  /\ tags' = r.tags
           /\ linkFs' = r.links
           /\ last' = [op |-> "toggle", res |-> r.res, fsop |-> r.fsop]
    /\ UNCHANGED <<call, layout, movie_dir_arg, movieFs, tagFs, unreadable,
                   constructed, movies, movie_dir, tag_dir, external, reqVars, serial>>

\* routes::reload once it holds the write lock
Reload ==
    /\ constructed
    /\ LET r == ReloadResult(tags, movies, movie_dir, tag_dir, layout,
                             movieFs, tagFs, linkFs, unreadable)
       IN  /\ tags' = r.tags
           /\ movies' = r.movies
           /\ last' = [op |-> "reload", res |-> r.res, fsop |-> "none"]
    /\ UNCHANGED <<call, fsVars, constructed, movie_dir, tag_dir, external, reqVars, serial>>

(***************************************************************************)
(* Another process changes the disk.                                       *)
(***************************************************************************)
ExternalOp == [op |-> "external", res |-> "Ok", fsop |-> "none"]

ExtMovie(n, k) ==
    /\ constructed
    /\ external < MaxExternal
    /\ movieFs[n] # k
    /\ movieFs' = [movieFs EXCEPT ![n] = k]
    /\ external' = external + 1
    /\ last' = ExternalOp
    /\ UNCHANGED <<call, layout, movie_dir_arg, tagFs, linkFs, unreadable, memVars,
                   reqVars, serial>>

ExtTag(t, k) ==
    /\ constructed
    /\ external < MaxExternal
    /\ tagFs[t] # k
    /\ tagFs' = [tagFs EXCEPT ![t] = k]
    /\ linkFs' = [linkFs EXCEPT ![t] = EmptyDir]
    /\ unreadable' = unreadable \ {t}
    /\ external' = external + 1
    /\ last' = ExternalOp
    /\ UNCHANGED <<call, layout, movie_dir_arg, movieFs, memVars, reqVars, serial>>

ExtLink(t, n, e) ==
    /\ constructed
    /\ external < MaxExternal
    /\ tagFs[t] = "dir"
    /\ linkFs[t][n] # e
    /\ linkFs' = [linkFs EXCEPT ![t][n] = e]
    /\ external' = external + 1
    /\ last' = ExternalOp
    /\ UNCHANGED <<call, layout, movie_dir_arg, movieFs, tagFs, unreadable, memVars,
                   reqVars, serial>>

ExtChmod(d) ==
    /\ constructed
    /\ external < MaxExternal
    /\ d \in TagNames => tagFs[d] = "dir"
    /\ unreadable' = IF d \in unreadable THEN unreadable \ {d} ELSE unreadable \cup {d}
    /\ external' = external + 1
    /\ last' = ExternalOp
    /\ UNCHANGED <<call, layout, movie_dir_arg, movieFs, tagFs, linkFs, memVars,
                   reqVars, serial>>

\* what the other process does: it adds or removes a movie directory, a
\* tag directory or an entry of a tag directory, or flips a read permission
ExternalEntries(l, n) ==
    {NoEntry, FileEntry, SymlinkTo(Join(CanonMovieRoot(l), n))}

External ==
    \/ \E n \in MovieNames, k \in {"none", "dir"} : ExtMovie(n, k)
    \/ \E t \in TagNames, k \in {"none", "dir"} : ExtTag(t, k)
    \/ \E t \in TagNames, n \in MovieNames :
          \E e \in ExternalEntries(layout, n) : ExtLink(t, n, e)
    \/ \E d \in {"movie_root"} \cup TagNames : ExtChmod(d)

\* the program alone: nothing else touches the disk
Next ==
    \/ Construct
    \/ \E t \in TagNames, h \in AllHashes : ToggleTag(t, h)
    \/ Reload

Spec == Init /\ [][Next]_vars

\* the program, and another process changing the disk between its operations
NextExt ==
    \/ Construct
    \/ \E t \in TagNames, h \in AllHashes : ToggleTag(t, h)
    \/ Reload
    \/ External

\* the disks SpecExt starts from; the other process makes the rest
InitExt ==
    /\ Init
    /\ layout = "disjoint"
    /\ movie_dir_arg = CanonMovieRoot(layout)
    /\ movieFs = [n \in MovieNames |-> IF n = "Alien (1979)" THEN "dir_poster" ELSE "dir"]
    /\ tagFs = [t \in TagNames |-> "dir"]
    /\ \A t \in TagNames : linkFs[t]["Brazil (1985)"] = NoEntry

SpecExt == InitExt /\ [][NextExt]_vars

(***************************************************************************)
(* The request handlers, each a task of its own, and the RwLock around the *)
(* Collection.  A handler's steps are its awaits.                          *)
(***************************************************************************)
Readers == {"index", "movie_list", "movie", "movie_poster"}
Writers == {"toggle_tag", "reload"}

\* the requests a client sends
Requests ==
    {[kind |-> "index", tag |-> "", hash |-> <<>>],
     [kind |-> "movie_list", tag |-> "", hash |-> <<>>],
     [kind |-> "reload", tag |-> "", hash |-> <<>>]}
    \cup {[kind |-> k, tag |-> "", hash |-> Sha1("Alien (1979)")] :
            k \in {"movie", "movie_poster"}}
    \cup {[kind |-> "toggle_tag", tag |-> t, hash |-> Sha1("Alien (1979)")] :
            t \in TagNames}
    \* a well-formed identifier that is the digest of no movie's name
    \cup {[kind |-> k, tag |-> "", hash |-> Sha1(TagRootName)] :
            k \in {"movie", "movie_poster"}}
    \cup {[kind |-> "toggle_tag", tag |-> "Horror", hash |-> Sha1(TagRootName)]}

\* a slip: readers do not wait for the writer
ReadAdmissibleAlways(readers, writer) == TRUE

\* RwLock::read: a read guard is granted while no write guard is out
ReadAdmissible(readers, writer) == writer = 0

\* a slip: a writer waits for the readers only, not for another writer
WriteAdmissibleBesideWriter(readers, writer) == readers = {}

\* RwLock::write: the write guard is granted while no guard at all is out
WriteAdmissible(readers, writer) == writer = 0 /\ readers = {}

\* a request comes in and its handler asks for its guard; the lock serves
\* its waiters in the order they asked
Arrive(r, q) ==
    /\ constructed
    /\ pc[r] = "idle"
    /\ IF r = 1 THEN TRUE ELSE pc[r - 1] # "idle"
    /\ req' = [req EXCEPT ![r] = q]
    /\ pc' = [pc EXCEPT ![r] = "waiting"]
    /\ rw_queue' = Append(rw_queue, r)
    /\ UNCHANGED <<call, fsVars, memVars, last, external, outcome, rw_readers,
                   rw_writer, pending, serial>>

\* state.collection.read().await returns
AcquireRead(r) ==
    /\ pc[r] = "waiting"
    /\ req[r].kind \in Readers
    /\ rw_queue # <<>> /\ Head(rw_queue) = r
    /\ ReadAdmissible(rw_readers, rw_writer)
    /\ rw_readers' = rw_readers \cup {r}
    /\ rw_queue' = Tail(rw_queue)
    /\ pc' = [pc EXCEPT ![r] = "holding"]
    /\ UNCHANGED <<call, fsVars, memVars, last, external, req, outcome, rw_writer,
                   pending, serial>>

\* what a read handler answers from the Collection it sees
ReadOutcome(q, movies_) ==
    CASE q.kind \in {"index", "movie_list"} -> "Ok"
      [] q.kind = "movie" -> IF q.hash \in DOMAIN movies_ THEN "Ok" ELSE "NotFound"
      [] q.kind = "movie_poster" -> IF q.hash \in DOMAIN movies_ THEN "Ok" ELSE "panic"

\* the read handler renders its answer and drops its guard
ReaderFinish(r) ==
    /\ pc[r] = "holding"
    /\ req[r].kind \in Readers
    /\ outcome' = [outcome EXCEPT ![r] = ReadOutcome(req[r], movies)]
    /\ rw_readers' = rw_readers \ {r}
    /\ pc' = [pc EXCEPT ![r] = "done"]
    /\ UNCHANGED <<call, fsVars, memVars, last, external, req, rw_writer, rw_queue,
                   pending, serial>>

\* the Collection and the links after request q's handler, run alone
SerialEffect(q) ==
    IF q.kind = "toggle_tag"
    THEN LET t == ToggleRequestResult(tags, movies, tag_dir, movie_dir, q.hash,
                                      q.tag, layout, tagFs, linkFs)
         IN  [tags |-> t.tags, movies |-> movies, links |-> t.links]
    ELSE LET l == ReloadResult(tags, movies, movie_dir, tag_dir, layout,
                               movieFs, tagFs, linkFs, unreadable)
         IN  [tags |-> l.tags, movies |-> l.movies, links |-> linkFs]

\* state.collection.write().await returns
AcquireWrite(r) ==
    /\ pc[r] = "waiting"
    /\ req[r].kind \in Writers
    /\ rw_queue # <<>> /\ Head(rw_queue) = r
    /\ WriteAdmissible(rw_readers, rw_writer)
    /\ rw_writer' = r
    /\ rw_queue' = Tail(rw_queue)
    /\ pc' = [pc EXCEPT ![r] = "holding"]
    /\ serial' = SerialEffect(req[r])
    /\ UNCHANGED <<call, fsVars, memVars, last, external, req, outcome, rw_readers, pending>>

\* a slip: the membership set is updated before the filesystem call
ToggleFsSetFirst(r) ==
    /\ pc[r] = "holding"
    /\ req[r].kind = "toggle_tag"
    /\ LET t == ToggleRequestResult(tags, movies, tag_dir, movie_dir, req[r].hash,
                                    req[r].tag, layout, tagFs, linkFs)
           set_first == IF req[r].hash \in DOMAIN movies /\ req[r].tag \in DOMAIN tags
                        THEN [tags EXCEPT ![req[r].tag] =
                                 IF req[r].hash \in @ THEN @ \ {req[r].hash}
                                 ELSE @ \cup {req[r].hash}]
                        ELSE tags
       IN  /\ tags' = set_first
           /\ linkFs' = t.links
           /\ outcome' = [outcome EXCEPT ![r] = t.res]
           /\ pending' = [res |-> t.res, tags |-> set_first]
           /\ pc' = [pc EXCEPT ![r] = IF t.res = "Ok" THEN "mutated" ELSE "updated"]
    /\ UNCHANGED <<call, layout, movie_dir_arg, movieFs, tagFs, unreadable,
                   constructed, movies, movie_dir, tag_dir,
                   last, external, req, rw_readers, rw_writer, rw_queue, serial>>

\* routes::toggle_tag: the lookup, then Collection::toggle_tag up to the
\* return of its filesystem call
ToggleFs(r) ==
    /\ pc[r] = "holding"
    /\ req[r].kind = "toggle_tag"
    /\ LET t == ToggleRequestResult(tags, movies, tag_dir, movie_dir, req[r].hash,
                                    req[r].tag, layout, tagFs, linkFs)
       IN  /\ linkFs' = t.links
           /\ outcome' = [outcome EXCEPT ![r] = t.res]
           /\ pending' = [res |-> t.res, tags |-> t.tags]
           /\ pc' = [pc EXCEPT ![r] = IF t.res = "Ok" THEN "mutated" ELSE "updated"]
    /\ UNCHANGED <<call, layout, movie_dir_arg, movieFs, tagFs, unreadable, memVars,
                   last, external, req, rw_readers, rw_writer, rw_queue, serial>>

\* Collection::toggle_tag: the update of the membership set
ToggleMem(r) ==
    /\ pc[r] = "mutated"
    /\ req[r].kind = "toggle_tag"
    /\ tags' = pending.tags
    /\ pc' = [pc EXCEPT ![r] = "updated"]
    /\ UNCHANGED <<call, fsVars, constructed, movies, movie_dir, tag_dir, last, external,
                   req, outcome, rw_readers, rw_writer, rw_queue, pending, serial>>

\* Collection::reload: the movie scan and the assignment of its result
ReloadMovies(r) ==
    /\ pc[r] = "holding"
    /\ req[r].kind = "reload"
    /\ LET ms == load_movies(movie_dir, layout, movieFs, tagFs, linkFs, unreadable)
       IN  /\ movies' = IF ms.ok THEN ms.movies ELSE movies
           /\ outcome' = [outcome EXCEPT ![r] = IF ms.ok THEN @ ELSE "Other"]
           /\ pc' = [pc EXCEPT ![r] = IF ms.ok THEN "movies_loaded" ELSE "updated"]
    /\ UNCHANGED <<call, fsVars, constructed, tags, movie_dir, tag_dir, last, external,
                   req, rw_readers, rw_writer, rw_queue, pending, serial>>

\* Collection::reload: the tag scan and the assignment of its result
ReloadTags(r) ==
    /\ pc[r] = "movies_loaded"
    /\ req[r].kind = "reload"
    /\ LET ts == load_tags(tag_dir, {movie_dir}, layout, movieFs, tagFs, linkFs,
                           unreadable)
       IN  /\ tags' = IF ts.ok THEN ts.tags ELSE tags
           /\ outcome' = [outcome EXCEPT ![r] = IF ts.ok THEN "Ok" ELSE "Other"]
    /\ pc' = [pc EXCEPT ![r] = "updated"]
    /\ UNCHANGED <<call, fsVars, constructed, movies, movie_dir, tag_dir, last, external,
                   req, rw_readers, rw_writer, rw_queue, pending, serial>>

\* a slip: the guard is dropped on the success path only
ReleaseWriteOnSuccessOnly(r) ==
    /\ pc[r] = "updated"
    /\ req[r].kind \in Writers
    /\ rw_writer' = IF rw_writer = r /\ outcome[r] = "Ok" THEN 0 ELSE rw_writer
    /\ pending' = NoPending
    /\ pc' = [pc EXCEPT ![r] = "done"]
    /\ UNCHANGED <<call, fsVars, memVars, last, external, req, outcome, rw_readers,
                   rw_queue, serial>>

\* the write handler builds its response and drops its guard
ReleaseWrite(r) ==
    /\ pc[r] = "updated"
    /\ req[r].kind \in Writers
    /\ rw_writer' = IF rw_writer = r THEN 0 ELSE rw_writer
    /\ pending' = NoPending
    /\ pc' = [pc EXCEPT ![r] = "done"]
    /\ UNCHANGED <<call, fsVars, memVars, last, external, req, outcome, rw_readers,
                   rw_queue, serial>>

\* the disks the server is started on in SpecConc
InitConc ==
    /\ Init
    /\ layout = "disjoint"
    /\ movie_dir_arg = CanonMovieRoot(layout)
    /\ movieFs = [n \in MovieNames |-> IF n = "Alien (1979)" THEN "dir_poster" ELSE "dir"]
    /\ tagFs = [t \in TagNames |-> "dir"]
    /\ \A t \in TagNames : linkFs[t]["Brazil (1985)"] = NoEntry

NextConc ==
    \/ Construct
    \/ \E r \in Reqs, q \in Requests : Arrive(r, q)
    \/ \E r \in Reqs : AcquireRead(r)
    \/ \E r \in Reqs : ReaderFinish(r)
    \/ \E r \in Reqs : AcquireWrite(r)
    \/ \E r \in Reqs : ToggleFs(r)
    \/ \E r \in Reqs : ToggleMem(r)
    \/ \E r \in Reqs : ReloadMovies(r)
    \/ \E r \in Reqs : ReloadTags(r)
    \/ \E r \in Reqs : ReleaseWrite(r)

SpecConc == InitConc /\ [][NextConc]_vars

\* the next step of request r's handler: the runtime polls a task that can
\* go on, every filesystem call returns, and the lock grants its guards in
\* the order of rw_queue
HandlerStep(r) ==
    \/ AcquireRead(r)
    \/ ReaderFinish(r)
    \/ AcquireWrite(r)
    \/ ToggleFs(r)
    \/ ToggleMem(r)
    \/ ReloadMovies(r)
    \/ ReloadTags(r)
    \/ ReleaseWrite(r)

\* the server started on a disk with a stray file where a link would go,
\* and another process that takes the read permission of a tag directory
\* away while requests are served: toggles and reloads fail as well as
\* succeed
InitFair == InitConc /\ linkFs["Horror"]["Alien (1979)"] = FileEntry

NextFair ==
    \/ NextConc
    \/ unreadable = {} /\ ExtChmod("Horror")

SpecConcFair ==
    InitFair /\ [][NextFair]_vars /\ \A r \in Reqs : WF_vars(HandlerStep(r))

\* the server, and another process that removes a movie directory while
\* requests are served
NextConcExt ==
    \/ NextConc
    \/ ExtMovie("Alien (1979)", "none")

SpecConcExt == InitConc /\ [][NextConcExt]_vars

(***************************************************************************)
(* The identifier functions on their own: path_hash, Movie::id and         *)
(* PathnameHash::from_str, applied to sample arguments.                    *)
(***************************************************************************)
ByteSamples == {0, 9, 10, 15, 16, 127, 160, 255}

\* identifiers: the digests of the names, and values with one byte set
\* apart at either end
IdSamples ==
    {Sha1(n) : n \in EntryNames \cup {MovieRootName}}
    \cup {[i \in 1..HashLen |-> IF i = k THEN b ELSE c] :
            k \in {1, HashLen}, b \in ByteSamples, c \in {0, 255}}

ToUpper(t) == [i \in 1..Len(t) |-> UpperHexDigits[HexVal(t[i]) + 1]]

\* strings a client can put in the place of :id: well-formed ones of either
\* case, ones a character short or long, ones with a foreign character
TextSamples ==
    LET base == {id(Sha1(n)) : n \in MovieNames}
    IN  base
        \cup {ToUpper(t) : t \in base}
        \cup {SubSeq(t, 1, k) : t \in base, k \in {0, 2 * HashLen - 2, 2 * HashLen - 1}}
        \cup {t \o x : t \in base, x \in {<<"0">>, <<"0", "0">>}}
        \cup {[t EXCEPT ![k] = c] : t \in base, k \in {1, 2 * HashLen},
                                     c \in {"g", "G", " ", "-"}}

PathSamples ==
    {<<"/", "srv", "movies", "Alien (1979)">>,
     <<"/", "srv", "tags", "Horror", "Alien (1979)">>,
     <<"movies", "Alien (1979)">>,
     <<"Alien (1979)">>,
     <<"/", "srv", "movies", "Brazil (1985)">>,
     <<"/", "srv", "tags", "SciFi", "Brazil (1985)">>,
     <<"/", "srv", "tags">>,
     <<"/", "srv", "movies", "tags">>,
     <<>>,
     <<"/">>,
     <<"..">>,
     <<"movies", "..">>}

PureCalls ==
    {[NoCall EXCEPT !.fn = "id", !.arg = h] : h \in IdSamples}
    \cup {[NoCall EXCEPT !.fn = "from_str", !.arg = t] : t \in TextSamples}
    \cup {[NoCall EXCEPT !.fn = "path_hash", !.arg = <<a, b>>] :
            a \in PathSamples, b \in PathSamples}

\* Movie::id formats an identifier; the text is then handed to from_str
FormatId ==
    /\ call.fn = "id" /\ ~call.done
    /\ call' = [fn |-> "from_str", arg |-> id(call.arg), origin |-> call.arg,
                done |-> FALSE, ret |-> <<>>]
    /\ UNCHANGED <<fsVars, memVars, last, external, reqVars, serial>>

\* PathnameHash::from_str(&id), the first statement of every :id handler
ParseId ==
    /\ call.fn = "from_str" /\ ~call.done
    /\ call' = [call EXCEPT !.ret = from_str(call.arg), !.done = TRUE]
    /\ UNCHANGED <<fsVars, memVars, last, external, reqVars, serial>>

\* path_hash applied to two paths
HashPaths ==
    /\ call.fn = "path_hash" /\ ~call.done
    /\ call' = [call EXCEPT !.ret = <<path_hash(call.arg[1]), path_hash(call.arg[2])>>,
                            !.done = TRUE]
    /\ UNCHANGED <<fsVars, memVars, last, external, reqVars, serial>>

InitPure ==
    /\ InitState
    /\ layout = "disjoint"
    /\ movie_dir_arg = CanonMovieRoot(layout)
    /\ movieFs = [n \in MovieNames |-> IF n = "Alien (1979)" THEN "dir_poster" ELSE "dir"]
    /\ tagFs = [t \in TagNames |-> "dir"]
    /\ linkFs = [t \in TagNames |-> EmptyDir]
    /\ call \in PureCalls

NextPure ==
    \/ FormatId
    \/ ParseId
    \/ HashPaths

SpecPure == InitPure /\ [][NextPure]_vars

(***************************************************************************)
(* What the disk holds, read off the disk itself.                          *)
(***************************************************************************)
\* the identifiers of the symlinks inside tag directory t
DiskMembers(t, tfs, lfs) ==
    IF t \in TagNames /\ tfs[t] = "dir"
    THEN {Sha1(n) : n \in {x \in EntryNames : lfs[t][x].kind = "symlink"}}
    ELSE {}

\* memory and disk agree on every tag of the tag table
TagsMatchDisk(tags_, tfs, lfs) ==
    \A t \in DOMAIN tags_ : tags_[t] = DiskMembers(t, tfs, lfs)

\* the kind of every entry of every tag directory
LinkKinds(lfs) == [t \in TagNames |-> [n \in EntryNames |-> lfs[t][n].kind]]

\* the base name an identifier is the digest of
NameOf(h) == CHOOSE n \in EntryNames : Sha1(n) = h

\* the direct subdirectories of the movie root
MovieSubdirs ==
    {n \in MovieNames : movieFs[n] \in {"dir", "dir_poster"}}
    \cup (IF layout = "tag_in_movie" THEN {TagRootName} ELSE {})

\* the tag directories: the direct subdirectories of the tag root, the
\* movie root apart
TagSubdirs == {t \in TagNames : tagFs[t] = "dir"}

(***************************************************************************)
(* C1  With no external change to the disk, between any two operations     *)
(* after a successful construction, an identifier is in a tag's            *)
(* membership set exactly when a symlink whose base name has that digest   *)
(* exists in the tag's directory.                                          *)
(***************************************************************************)
C1_IndexMatchesDisk ==
    constructed => TagsMatchDisk(tags, tagFs, linkFs)

C1_Witness ==
    /\ constructed
    /\ last.op = "toggle" /\ last.res = "Ok" /\ last.fsop = "remove_file"
    /\ \E t \in DOMAIN tags : tags[t] # {}
    /\ \E t \in TagNames : \E n \in EntryNames : linkFs[t][n].kind = "file"

(***************************************************************************)
(* C2  A toggle that returns NotFound or IO changes neither a membership   *)
(* set, nor the set of tag names, nor the movie table, nor the roots.      *)
(***************************************************************************)
C2_FailedToggleChangesNothing ==
    [][(last'.op = "toggle" /\ last'.res \in {"NotFound", "IO"})
        => (tags' = tags /\ movies' = movies
            /\ movie_dir' = movie_dir /\ tag_dir' = tag_dir)]_vars

\* the deletion failed: the symlink of a tagged movie had vanished
C2_Witness ==
    /\ last.op = "toggle" /\ last.res = "IO" /\ last.fsop = "remove_file"
    /\ \E t \in DOMAIN tags : tags[t] # DiskMembers(t, tagFs, linkFs)

(***************************************************************************)
(* C3  A Reload that returns an error has replaced neither the movie       *)
(* table nor the tag table.                                                *)
(***************************************************************************)
C3_FailedReloadReplacesNothing ==
    [][(last'.op = "reload" /\ last'.res # "Ok")
        => (movies' = movies /\ tags' = tags)]_vars

(***************************************************************************)
(* C4  While a request holds the read guard, memory and disk agree on      *)
(* every (tag, movie) pair: no reader sees the state between a toggle's    *)
(* filesystem call and its set update.                                     *)
(***************************************************************************)
C4_ReadersSeeNoHalfToggle ==
    rw_readers # {} => TagsMatchDisk(tags, tagFs, linkFs)

\* a reader holds the guard after one toggle went through, with another
\* toggle waiting behind it
C4_Witness ==
    /\ rw_readers # {}
    /\ \E w \in Reqs : req[w].kind = "toggle_tag" /\ pc[w] = "done" /\ outcome[w] = "Ok"
    /\ \E w \in Reqs : req[w].kind = "toggle_tag" /\ pc[w] = "waiting"

(***************************************************************************)
(* C5  The guards exclude: no guard is out, or read guards only, or one    *)
(* write guard only; the handlers inside the lock are the guard holders;   *)
(* and whenever no write guard is out, the Collection and the links are    *)
(* what the writers, run one after the other in the order they got the     *)
(* guard, produce.                                                         *)
(***************************************************************************)
InsideWrite ==
    {r \in Reqs : req[r].kind \in Writers
                  /\ pc[r] \in {"holding", "mutated", "movies_loaded", "updated"}}

InsideRead == {r \in Reqs : req[r].kind \in Readers /\ pc[r] = "holding"}

C5_ReadersWriterExclusion ==
    /\ rw_writer = 0 \/ rw_readers = {}
    /\ Cardinality(InsideWrite) <= 1
    /\ InsideWrite = {rw_writer} \ {0}
    /\ InsideRead = rw_readers
    /\ rw_writer = 0 =>
          /\ tags = serial.tags
          /\ movies = serial.movies
          /\ linkFs = serial.links

\* a toggle stands between its filesystem call and its set update while a
\* toggle of another tag and a reader wait
C5_Witness ==
    \E w1, w2, r \in Reqs :
        /\ req[w1].kind = "toggle_tag" /\ pc[w1] = "mutated"
        /\ req[w2].kind = "toggle_tag" /\ pc[w2] = "waiting"
        /\ req[w1].tag # req[w2].tag
        /\ req[r].kind \in Readers /\ pc[r] = "waiting"

(***************************************************************************)
(* C6  From a state where memory and disk agree on (t, m), two toggles of  *)
(* (t, m) in a row leave every membership set and the existence of every   *)
(* symlink as they were before the first.                                  *)
(***************************************************************************)
TwiceToggled(t, h) ==
    LET r1 == ToggleRequestResult(tags, movies, tag_dir, movie_dir, h, t,
                                  layout, tagFs, linkFs)
        r2 == ToggleRequestResult(r1.tags, movies, tag_dir, movie_dir, h, t,
                                  layout, tagFs, r1.links)
    IN  [first |-> r1, second |-> r2]

C6_DoubleToggleRestores ==
    constructed =>
        \A t \in DOMAIN tags, h \in DOMAIN movies :
            ((h \in tags[t]) <=> (h \in DiskMembers(t, tagFs, linkFs)))
            => /\ TwiceToggled(t, h).second.tags = tags
               /\ LinkKinds(TwiceToggled(t, h).second.links) = LinkKinds(linkFs)

\* a toggle has just succeeded, and toggling some pair twice from here
\* changes the state and changes it back
C6_Witness ==
    /\ constructed
    /\ last.op = "toggle" /\ last.res = "Ok"
    /\ \E t \in DOMAIN tags, h \in DOMAIN movies :
          /\ h \in tags[t]
          /\ TwiceToggled(t, h).first.res = "Ok"
          /\ TwiceToggled(t, h).first.tags # tags
          /\ LinkKinds(TwiceToggled(t, h).first.links) # LinkKinds(linkFs)
          /\ TwiceToggled(t, h).second.res = "Ok"

(***************************************************************************)
(* C7  A toggle of (t, m) changes no other tag's set, no other movie's     *)
(* membership in t, not the movie table, not the roots, and on disk        *)
(* nothing but the one path tag_root/t/<m's base name>; when t is a tag    *)
(* and m a movie it issues exactly one filesystem call, for that path,     *)
(* and the path is created or deleted exactly when the toggle succeeds.    *)
(***************************************************************************)
\* what a toggle of (t, h) leaves alone
ToggleLeavesRest(t, h) ==
    /\ DOMAIN tags' = DOMAIN tags
    /\ \A t2 \in DOMAIN tags \ {t} : tags'[t2] = tags[t2]
    /\ t \in DOMAIN tags => tags'[t] \ {h} = tags[t] \ {h}
    /\ movies' = movies /\ movie_dir' = movie_dir /\ tag_dir' = tag_dir
    /\ movieFs' = movieFs /\ tagFs' = tagFs /\ unreadable' = unreadable
    /\ \A t2 \in TagNames, n2 \in EntryNames :
          (t2 # t \/ n2 # NameOf(h)) => linkFs'[t2][n2] = linkFs[t2][n2]

\* the path tag_root/t/<base name of h> is created or deleted by this step
PathMutated(t, h) ==
    /\ linkFs'[t][NameOf(h)].kind # linkFs[t][NameOf(h)].kind
    /\ "none" \in {linkFs'[t][NameOf(h)].kind, linkFs[t][NameOf(h)].kind}

C7_ToggleTouchesOnePair ==
    [][\A t \in TagNames, h \in AllHashes :
          ToggleTag(t, h)
          => /\ ToggleLeavesRest(t, h)
             /\ (t \in DOMAIN tags /\ h \in DOMAIN movies)
                => /\ last'.fsop \in {"remove_file", "symlink"}
                   /\ PathMutated(t, h) <=> last'.res = "Ok"]_vars

\* a removing toggle has succeeded while another tag still has members
C7_Witness ==
    /\ last.op = "toggle" /\ last.res = "Ok" /\ last.fsop = "remove_file"
    /\ \E t1, t2 \in DOMAIN tags : t1 # t2 /\ tags[t1] # {} /\ tags[t2] # {}

\* C7 as written: whenever t is a tag, one path is created or deleted
C7_AlwaysOneMutation ==
    [][\A t \in TagNames, h \in AllHashes :
          ToggleTag(t, h)
          => /\ ToggleLeavesRest(t, h)
             /\ (t \in DOMAIN tags /\ h \in DOMAIN movies) => PathMutated(t, h)]_vars

(***************************************************************************)
(* C8  A toggle whose tag name is no key of the tag table fails with       *)
(* NotFound, issues no filesystem call, changes nothing on disk and adds   *)
(* no tag.                                                                 *)
(***************************************************************************)
C8_UnknownTagNotFound ==
    [][\A t \in TagNames, h \in AllHashes :
          (ToggleTag(t, h) /\ t \notin DOMAIN tags)
          => /\ last'.res = "NotFound" /\ last'.fsop = "none"
             /\ tags' = tags
             /\ movieFs' = movieFs /\ tagFs' = tagFs /\ linkFs' = linkFs]_vars

\* every identifier names a movie, so the NotFound came from the tag name
C8_Witness ==
    /\ last.op = "toggle" /\ last.res = "NotFound"
    /\ AllHashes \subseteq DOMAIN movies
    /\ TagNames \ DOMAIN tags # {}

(***************************************************************************)
(* C9  After a successful Reload, whatever another process did to the      *)
(* disk, the tag names are the tag directories, each membership set is the *)
(* identifiers of the symlinks in its directory, and the movie table has   *)
(* one entry per direct subdirectory of the movie root.                    *)
(***************************************************************************)
C9_ReloadReflectsDisk ==
    (last.op = "reload" /\ last.res = "Ok") =>
        /\ DOMAIN tags = TagSubdirs
        /\ TagsMatchDisk(tags, tagFs, linkFs)
        /\ DOMAIN movies = {Sha1(n) : n \in MovieSubdirs}
        /\ Cardinality(DOMAIN movies) = Cardinality(MovieSubdirs)
        /\ \A n \in MovieSubdirs : movies[Sha1(n)].name = n

\* the Reload follows two external changes and the disk holds a symlink,
\* a stray file and a missing movie
C9_Witness ==
    /\ last.op = "reload" /\ last.res = "Ok"
    /\ external = 2
    /\ MovieSubdirs # MovieNames
    /\ \E t \in TagNames : \E n \in EntryNames : linkFs[t][n].kind = "symlink"

(***************************************************************************)
(* C10  When the tag root is a direct subdirectory of the movie root, the  *)
(* movie table has no entry for the tag root.                              *)
(***************************************************************************)
C10_TagRootIsNoMovie ==
    (constructed /\ layout = "tag_in_movie") => Sha1(TagRootName) \notin DOMAIN movies

(***************************************************************************)
(* C11  With the movie root a direct subdirectory of the tag root, no scan *)
(* of Construct or Reload lists the movie root as a tag: the stored movie  *)
(* root, which is the ignore set of every Reload, is the canonical movie   *)
(* root, and the tag table has no key for it.                              *)
(***************************************************************************)
C11_MovieRootIsNoTag ==
    constructed =>
        /\ movie_dir = CanonMovieRoot(layout)
        /\ layout = "movie_in_tag" =>
              /\ Join(tag_dir, MovieRootName) = movie_dir
              /\ MovieRootName \notin DOMAIN tags

\* the movie root was given relative, lies inside the tag root, and a
\* Reload has rescanned a tag root that holds a tagged movie
C11_Witness ==
    /\ constructed /\ layout = "movie_in_tag"
    /\ movie_dir_arg # CanonMovieRoot(layout)
    /\ last.op = "reload" /\ last.res = "Ok"
    /\ \E t \in DOMAIN tags : tags[t] # {}

(***************************************************************************)
(* C12  After a successful Construct the movie table has one entry per     *)
(* direct subdirectory of the movie root and none for a regular file; the  *)
(* entry is keyed by the digest of the base name, is named by the base     *)
(* name, and has a poster path exactly when poster.jpg is in the           *)
(* subdirectory.                                                           *)
(***************************************************************************)
C12_MovieTableAfterConstruct ==
    (last.op = "construct" /\ last.res = "Ok") =>
        /\ DOMAIN movies = {Sha1(n) : n \in MovieSubdirs}
        /\ Cardinality(DOMAIN movies) = Cardinality(MovieSubdirs)
        /\ \A n \in MovieNames : movieFs[n] \in {"file", "none"} => Sha1(n) \notin DOMAIN movies
        /\ \A n \in MovieSubdirs :
              /\ movies[Sha1(n)].hash = Sha1(n)
              /\ movies[Sha1(n)].name = n
              /\ movies[Sha1(n)].poster_path # None
                 <=> (n \in MovieNames /\ movieFs[n] = "dir_poster")
              /\ movies[Sha1(n)].poster_path # None
                 => movies[Sha1(n)].poster_path
                    = Join(Join(movie_dir_arg, n), "poster.jpg")

\* the movie root held a movie with a poster, a subdirectory without one
\* and a regular file
C12_Witness ==
    /\ last.op = "construct" /\ last.res = "Ok"
    /\ \E n \in MovieNames : movieFs[n] = "file"
    /\ \E h \in DOMAIN movies : movies[h].poster_path # None
    /\ \E h \in DOMAIN movies : movies[h].poster_path = None

(***************************************************************************)
(* C13  After a successful Construct or Reload the keys of the tag table   *)
(* are the direct subdirectories of the tag root, the movie root apart; a  *)
(* tag directory without a symlink is a key with the empty set; a regular  *)
(* file under the tag root is no key.                                      *)
(***************************************************************************)
C13_EveryTagDirectoryListed ==
    (last.op \in {"construct", "reload"} /\ last.res = "Ok") =>
        /\ DOMAIN tags = TagSubdirs
        /\ \A t \in TagNames :
              /\ (tagFs[t] = "dir"
                  /\ \A n \in EntryNames : linkFs[t][n].kind # "symlink")
                 => (t \in DOMAIN tags /\ tags[t] = {})
              /\ tagFs[t] = "file" => t \notin DOMAIN tags

\* a Reload found a tag directory with nothing in it, beside a regular
\* file under the tag root
C13_Witness ==
    /\ last.op = "reload" /\ last.res = "Ok"
    /\ \E t \in DOMAIN tags : tags[t] = {} /\ linkFs[t] = EmptyDir
    /\ \E t \in TagNames : tagFs[t] = "file"

(***************************************************************************)
(* C14  A scan ends without error whatever lies in the tag directories,    *)
(* and the membership set of a tag holds the digest of an entry's base     *)
(* name exactly when that entry of the tag's directory is a symlink:       *)
(* regular files and subdirectories give no identifier.                    *)
(***************************************************************************)
C14_MembersAreSymlinks ==
    last.op \in {"construct", "reload"} =>
        /\ last.res = "Ok"
        /\ \A t \in DOMAIN tags :
              /\ tags[t] \subseteq AllHashes
              /\ \A n \in EntryNames :
                    Sha1(n) \in tags[t] <=> linkFs[t][n].kind = "symlink"

\* a Reload scanned a tag directory that holds a symlink beside a regular
\* file or a subdirectory
C14_Witness ==
    /\ last.op = "reload" /\ last.res = "Ok"
    /\ \E t \in DOMAIN tags : \E n1, n2 \in EntryNames :
          /\ linkFs[t][n1].kind = "symlink"
          /\ linkFs[t][n2].kind \in {"file", "dir"}

(***************************************************************************)
(* C15  Formatting a 20-byte identifier with Movie::id gives 40 lowercase  *)
(* hex characters, and parsing them with PathnameHash::from_str gives the  *)
(* identifier back.                                                        *)
(***************************************************************************)
C15_HexRoundTrip ==
    (call.fn = "from_str" /\ call.origin # <<>>) =>
        /\ Len(call.arg) = 2 * HashLen
        /\ \A i \in 1..Len(call.arg) : \E d \in 1..16 : call.arg[i] = HexDigits[d]
        /\ call.done => (call.ret.ok /\ call.ret.hash = call.origin)

\* an identifier with a byte below 16 and a byte above 159 made the trip
C15_Witness ==
    /\ call.fn = "from_str" /\ call.origin # <<>> /\ call.done
    /\ \E i, j \in 1..HashLen : call.origin[i] < 16 /\ call.origin[j] > 159

\* a string that is not exactly 40 hex characters
Malformed(t) == Len(t) # 2 * HashLen \/ \E i \in 1..Len(t) : HexVal(t[i]) < 0

(***************************************************************************)
(* C16  Parsing a string that is not exactly 40 hex characters fails, and  *)
(* the failure is of the InvalidInput kind.                                *)
(***************************************************************************)
C16_MalformedIsInvalidInput ==
    (call.fn = "from_str" /\ call.done /\ Malformed(call.arg)) =>
        (~call.ret.ok /\ call.ret.err = "InvalidInput")

(***************************************************************************)
(* C17  path_hash depends on the final component only: two paths with the  *)
(* same final component, whatever their parents, get the same identifier,  *)
(* the same path gets the same identifier twice, and a path without a      *)
(* final component gets an error.                                          *)
(***************************************************************************)
HasFinalComponent(p) == Len(p) > 0 /\ p[Len(p)] \notin {"/", ".."}

C17_FinalComponentOnly ==
    (call.fn = "path_hash" /\ call.done) =>
        LET a == call.arg[1]
            b == call.arg[2]
        IN  /\ (HasFinalComponent(a) /\ HasFinalComponent(b) /\ a[Len(a)] = b[Len(b)])
                => (call.ret[1].ok /\ call.ret[1] = call.ret[2])
            /\ ~HasFinalComponent(a) => ~call.ret[1].ok
            /\ ~HasFinalComponent(b) => ~call.ret[2].ok

\* an absolute and a relative path of different depth with the same final
\* component were hashed
C17_Witness ==
    /\ call.fn = "path_hash" /\ call.done
    /\ call.arg[1] # call.arg[2]
    /\ Len(call.arg[1]) > Len(call.arg[2]) + 1
    /\ HasFinalComponent(call.arg[2])
    /\ call.arg[1][Len(call.arg[1])] = call.arg[2][Len(call.arg[2])]
    /\ call.arg[1][1] = "/" /\ call.arg[2][1] # "/"

(***************************************************************************)
(* C18  Inside one toggle the membership set changes only in a step that   *)
(* follows a filesystem call that returned success: the step of the        *)
(* filesystem call leaves the set alone, and a toggle whose call failed    *)
(* goes to its end without a step that changes the set.                    *)
(***************************************************************************)
C18_SetFollowsFilesystem ==
    [][\A r \in Reqs :
          (req[r].kind = "toggle_tag" /\ rw_writer = r) =>
              /\ tags' # tags =>
                    /\ pc[r] = "mutated" /\ outcome[r] = "Ok" /\ pending.res = "Ok"
                    /\ linkFs' = linkFs
                    /\ TagsMatchDisk(tags', tagFs, linkFs)
              /\ linkFs' # linkFs =>
                    /\ pc[r] = "holding" /\ pc'[r] = "mutated"
                    /\ tags' = tags
              /\ (pc[r] = "holding" /\ pc'[r] = "updated") =>
                    /\ outcome'[r] \in {"IO", "NotFound"}
                    /\ tags' = tags /\ linkFs' = linkFs
              /\ (pc[r] = "updated" /\ pc'[r] # pc[r]) =>
                    /\ pc'[r] = "done"
                    /\ tags' = tags /\ linkFs' = linkFs]_vars

\* one toggle has gone through and another has failed at its filesystem
\* call
C18_Witness ==
    /\ \E r \in Reqs : req[r].kind = "toggle_tag" /\ pc[r] = "done" /\ outcome[r] = "Ok"
    /\ \E r \in Reqs : req[r].kind = "toggle_tag" /\ pc[r] = "done" /\ outcome[r] = "IO"

\* memory says unlinked, and an entry is at the path of (t, h)
StaleEntry(t, h) == h \notin tags[t] /\ linkFs[t][NameOf(h)].kind # "none"

\* memory says linked, and nothing is at the path of (t, h)
LinkGone(t, h) == h \in tags[t] /\ linkFs[t][NameOf(h)].kind = "none"

\* memory says linked, and a regular file is at the path of (t, h)
LinkReplaced(t, h) == h \in tags[t] /\ linkFs[t][NameOf(h)].kind = "file"

\* the toggle of this step failed with IO and changed nothing
ToggleRefused ==
    /\ last'.res = "IO"
    /\ tags' = tags /\ movies' = movies
    /\ linkFs' = linkFs /\ tagFs' = tagFs /\ movieFs' = movieFs

(***************************************************************************)
(* C19  A toggle of a known tag and movie fails with IO and changes        *)
(* neither memory nor disk when memory says unlinked and an entry is at    *)
(* the path, or memory says linked and nothing is at the path; when        *)
(* memory says linked and a regular file has taken the symlink's place the *)
(* toggle succeeds, deleting the file and the identifier; after a          *)
(* successful Reload memory and disk agree.                                *)
(***************************************************************************)
C19_ToggleSurfacesDivergence ==
    [][/\ \A t \in TagNames, h \in AllHashes :
            (ToggleTag(t, h) /\ t \in DOMAIN tags /\ h \in DOMAIN movies) =>
                /\ (StaleEntry(t, h) \/ LinkGone(t, h)) => ToggleRefused
                /\ LinkReplaced(t, h) =>
                      /\ last'.res = "Ok"
                      /\ h \notin tags'[t]
                      /\ linkFs'[t][NameOf(h)] = NoEntry
       /\ (last'.op = "reload" /\ last'.res = "Ok")
            => TagsMatchDisk(tags', tagFs', linkFs')]_vars

\* a toggle has just been refused: another process had put a symlink at
\* the path of a pair that memory holds unlinked
C19_Witness ==
    /\ last.op = "toggle" /\ last.res = "IO" /\ last.fsop = "symlink"
    /\ external > 0
    /\ \E t \in DOMAIN tags, h \in DOMAIN movies :
          h \notin tags[t] /\ linkFs[t][NameOf(h)].kind = "symlink"

\* C19 as written: the toggle is refused whenever memory says linked and
\* no symlink is at the path
C19_ToggleNeverMasksDivergence ==
    [][/\ \A t \in TagNames, h \in AllHashes :
            (ToggleTag(t, h) /\ t \in DOMAIN tags /\ h \in DOMAIN movies
             /\ (StaleEntry(t, h)
                 \/ (h \in tags[t] /\ linkFs[t][NameOf(h)].kind # "symlink")))
            => ToggleRefused
       /\ (last'.op = "reload" /\ last'.res = "Ok")
            => TagsMatchDisk(tags', tagFs', linkFs')]_vars

(***************************************************************************)
(* C20  A request for a movie page, a poster or a toggle whose identifier  *)
(* is no key of the movie table ends with NotFound.                        *)
(***************************************************************************)
C20_UnknownMovieNotFound ==
    \A r \in Reqs :
        (pc[r] = "done"
         /\ req[r].kind \in {"movie", "movie_poster", "toggle_tag"}
         /\ req[r].hash \notin DOMAIN movies)
        => outcome[r] = "NotFound"

(***************************************************************************)
(* C21  A successful adding toggle of (t, m) creates, at the free path     *)
(* tag_root/t/<m's base name>, a symlink whose target is the canonical     *)
(* movie root joined with that base name, whatever path the Movie record   *)
(* carries; a successful removing toggle deletes the entry at that same    *)
(* path; no other path changes.                                            *)
(***************************************************************************)
C21_LinkPlaceAndTarget ==
    [][\A t \in TagNames, h \in AllHashes :
          (ToggleTag(t, h) /\ last'.res = "Ok") =>
              /\ last'.fsop = "symlink" =>
                    /\ linkFs[t][movies[h].name] = NoEntry
                    /\ linkFs'[t][movies[h].name]
                       = SymlinkTo(Join(CanonMovieRoot(layout), movies[h].name))
              /\ last'.fsop = "remove_file" =>
                    /\ linkFs[t][movies[h].name].kind # "none"
                    /\ linkFs'[t][movies[h].name] = NoEntry
              /\ last'.fsop \in {"symlink", "remove_file"}
              /\ \A t2 \in TagNames, n2 \in EntryNames :
                    (t2 # t \/ n2 # movies[h].name)
                    => linkFs'[t2][n2] = linkFs[t2][n2]]_vars

\* a link has just been made for a movie whose record carries a relative
\* path
C21_Witness ==
    /\ last.op = "toggle" /\ last.res = "Ok" /\ last.fsop = "symlink"
    /\ movie_dir_arg # CanonMovieRoot(layout)
    /\ \E t \in DOMAIN tags, h \in DOMAIN movies :
          /\ h \in tags[t]
          /\ movies[h].path # Join(movie_dir, movies[h].name)
          /\ linkFs[t][movies[h].name] = SymlinkTo(Join(movie_dir, movies[h].name))

(***************************************************************************)
(* C22  Every Movie record's path is the canonical movie root joined with  *)
(* the movie's base name, after Construct and after every Reload, whatever *)
(* movie directory Construct was given.                                    *)
(***************************************************************************)
C22_MoviePathsCanonical ==
    constructed =>
        \A h \in DOMAIN movies :
            movies[h].path = Join(CanonMovieRoot(layout), movies[h].name)

(***************************************************************************)
(* C25  With nothing else touching the disk, a successful Reload leaves    *)
(* the tag names and every membership set as the toggles left them.        *)
(***************************************************************************)
C25_ReloadKeepsToggledTags ==
    [][(last'.op = "reload" /\ last'.res = "Ok") => tags' = tags]_vars

\* a Reload has rescanned a tag directory with two symlinks, one of them
\* at least made by a toggle
C25_Witness ==
    /\ last.op = "reload" /\ last.res = "Ok"
    /\ \E t \in DOMAIN tags : Cardinality(tags[t]) >= 2

(***************************************************************************)
(* C23  A request that holds the write guard comes to its end, with        *)
(* success or with an error, and the guard is free again; a request that   *)
(* waits for a guard gets it; so every request that came in is answered.   *)
(***************************************************************************)
C23_EveryRequestFinishes ==
    \A r \in Reqs :
        (pc[r] = "waiting")
        ~> (/\ pc[r] = "done" /\ outcome[r] # "none"
            /\ rw_writer # r /\ r \notin rw_readers)

\* a Reload has failed and still holds the write guard, with a reader
\* or a writer waiting behind it
C23_Witness ==
    /\ rw_queue # <<>>
    /\ \E w \in Reqs :
          /\ rw_writer = w /\ req[w].kind = "reload"
          /\ pc[w] = "updated" /\ outcome[w] = "Other"

(***************************************************************************)
(* C24  From the moment a toggle request has the write guard until its set *)
(* update it keeps the guard and the movie table is not replaced; and the  *)
(* identifier its set update adds is a key of the movie table.             *)
(***************************************************************************)
C24_LookupAndToggleInOneHold ==
    [][\A r \in Reqs :
          (req[r].kind = "toggle_tag" /\ pc[r] \in {"holding", "mutated"}) =>
              /\ rw_writer = r /\ rw_writer' = r
              /\ movies' = movies
              /\ tags' # tags =>
                    /\ req[r].hash \in DOMAIN movies
                    /\ \A t \in DOMAIN tags' :
                          tags'[t] \ tags[t] \subseteq DOMAIN movies]_vars

\* one toggle has added an identifier, a Reload has then dropped a movie
\* that another process removed, and a toggle of that movie, which came in
\* before the Reload ended, has been answered NotFound
C24_Witness ==
    /\ Sha1("Alien (1979)") \notin DOMAIN movies
    /\ \E t \in DOMAIN tags : tags[t] # {}
    /\ \E w \in Reqs : req[w].kind = "reload" /\ pc[w] = "done" /\ outcome[w] = "Ok"
    /\ \E w \in Reqs :
          /\ req[w].kind = "toggle_tag" /\ req[w].hash = Sha1("Alien (1979)")
          /\ pc[w] = "done" /\ outcome[w] = "NotFound"

====
